---------------------------- MODULE Spec2Model ----------------------------
(***************************************************************************)
(* A model of the molt dirty-JSON cleaner: the shared lexical utilities    *)
(* (wasm/core), the structural scanner and structural index (simd.rs),     *)
(* the two-stage extractor (two_stage.rs), the single-pass tokenizer and   *)
(* the reconstructor (wasm/json lib.rs).                                   *)
(*                                                                         *)
(* A byte is modelled as a one-character string; Ord gives its u8 value    *)
(* where the code works on the value (the lane comparisons of the          *)
(* scanner).  Offsets are 0-based as in the source: At(s, p) is s[p].      *)
(***************************************************************************)
EXTENDS Integers, Sequences, FiniteSets

VARIABLES
    target_arch,       \* the build: "wasm32" (lane-parallel scanner) or "other"
    input,             \* the input buffer of the call
    called,            \* the operations that have been called on input
    positions_simd,    \* result of find_structural_positions_simd(input)
    positions_scalar,  \* result of find_structural_positions_scalar(input)
    index,             \* result of StructuralIndex::build(input)
    tokens,            \* result of tokenize(input)
    output,            \* result of clean_dirty_json_internal(input)
    tokens_simd,       \* result of parse_two_stage(input)
    output_simd,       \* result of clean_dirty_json_simd(input)
    skipped,           \* a call of skip_whitespace_and_comments(input, pos)
    cleaning,          \* a cleaner call in progress, one loop pass at a time
    closers,           \* the closing quote each path selects for an opening quote
    csv                \* a stringify_csv_internal call and the parse of its text

vars == <<target_arch, input, called, positions_simd, positions_scalar, index,
          tokens, output, tokens_simd, output_simd, skipped, cleaning,
          closers, csv>>


---------------------------------------------------------------------------
(* Bytes *)

\* One byte with the high bit set ('{' | 0x80), for the scanner.
HighByte == "0xFB"

AsciiLower == {"a","b","c","d","e","f","g","h","i","j","k","l","m",
               "n","o","p","q","r","s","t","u","v","w","x","y","z"}
AsciiUpper == {"A","B","C","D","E","F","G","H","I","J","K","L","M",
               "N","O","P","Q","R","S","T","U","V","W","X","Y","Z"}
AsciiDigit == {"0","1","2","3","4","5","6","7","8","9"}

\* The ASCII characters from 0x20 to 0x5F and from 0x61 to 0x7E.
AsciiPrintable ==
    <<" ", "!", "\"", "#", "$", "%", "&", "'", "(", ")", "*", "+", ",", "-",
      ".", "/", "0", "1", "2", "3", "4", "5", "6", "7", "8", "9", ":", ";",
      "<", "=", ">", "?", "@", "A", "B", "C", "D", "E", "F", "G", "H", "I",
      "J", "K", "L", "M", "N", "O", "P", "Q", "R", "S", "T", "U", "V", "W",
      "X", "Y", "Z", "[", "\\", "]", "^", "_">>

AsciiPrintableHigh ==
    <<"a", "b", "c", "d", "e", "f", "g", "h", "i", "j", "k", "l", "m", "n",
      "o", "p", "q", "r", "s", "t", "u", "v", "w", "x", "y", "z", "{", "|", "}", "~">>

\* The u8 value of a byte.
Ord(c) ==
    CASE c = "\t" -> 9 [] c = "\n" -> 10 [] c = "\f" -> 12 [] c = "\r" -> 13
      [] c = HighByte -> 251
      [] \E k \in 1 .. Len(AsciiPrintableHigh) : AsciiPrintableHigh[k] = c ->
             96 + (CHOOSE k \in 1 .. Len(AsciiPrintableHigh) : AsciiPrintableHigh[k] = c)
      [] OTHER ->
             31 + (CHOOSE k \in 1 .. Len(AsciiPrintable) : AsciiPrintable[k] = c)

At(s, p) == s[p + 1]

\* s[from..to) with 0-based offsets, as a Rust slice; empty when from >= to.
Slice(s, from, to) == SubSeq(s, from + 1, to)

\* All sequences over alphabet of length 0 .. n.
RECURSIVE SeqsUpTo(_, _)
SeqsUpTo(alphabet, n) ==
    IF n = 0 THEN {<<>>}
    ELSE LET shorter == SeqsUpTo(alphabet, n - 1) IN
         shorter \cup {Append(s, a) : s \in shorter, a \in alphabet}

\* The concatenation of a sequence of byte sequences, each but the last
\* followed by sep.
RECURSIVE Join(_, _)
Join(parts, sep) ==
    IF parts = <<>> THEN <<>>
    ELSE IF Len(parts) = 1 THEN parts[1]
    ELSE parts[1] \o sep \o Join(Tail(parts), sep)

---------------------------------------------------------------------------
(* wasm/core/src/lib.rs: shared lexical utilities *)

Token(token_type, value, start, end) ==
    [token_type |-> token_type, value |-> value, start |-> start, end |-> end]

ParseError(message, position) ==
    [ok |-> FALSE, message |-> message, position |-> position]

Ok(v) == [ok |-> TRUE, value |-> v]

is_whitespace(c) == c \in {" ", "\t", "\n", "\r"}

is_digit(c) == c \in AsciiDigit

is_identifier_start(c) == c \in AsciiLower \cup AsciiUpper \/ c = "_" \/ c = "$"

is_identifier_char(c) ==
    c \in AsciiLower \cup AsciiUpper \cup AsciiDigit \/ c = "_" \/ c = "$"

\* while pos < len && bytes[pos] != b'\n' { pos += 1 }
RECURSIVE skip_line_comment(_, _, _)
skip_line_comment(bytes, pos, len) ==
    IF pos < len /\ At(bytes, pos) # "\n"
    THEN skip_line_comment(bytes, pos + 1, len)
    ELSE pos

RECURSIVE skip_block_comment_keeps_slash(_, _, _)
skip_block_comment_keeps_slash(bytes, pos, len) ==
    IF pos + 1 < len
    THEN IF At(bytes, pos) = "*" /\ At(bytes, pos + 1) = "/"
         THEN pos + 1
         ELSE skip_block_comment_keeps_slash(bytes, pos + 1, len)
    ELSE pos

\* while pos + 1 < len { if "*/" at pos { pos += 2; break } pos += 1 }
RECURSIVE skip_block_comment(_, _, _)
skip_block_comment(bytes, pos, len) ==
    IF pos + 1 < len
    THEN IF At(bytes, pos) = "*" /\ At(bytes, pos + 1) = "/"
         THEN pos + 2
         ELSE skip_block_comment(bytes, pos + 1, len)
    ELSE pos

RECURSIVE skip_whitespace_and_comments(_, _)
skip_whitespace_and_comments(bytes, pos) ==
    LET len == Len(bytes) IN
    IF pos < len
    THEN LET c == At(bytes, pos) IN
         IF is_whitespace(c)
         THEN skip_whitespace_and_comments(bytes, pos + 1)
         ELSE IF c = "/" /\ pos + 1 < len /\ At(bytes, pos + 1) = "/"
         THEN skip_whitespace_and_comments(bytes,
                  skip_line_comment(bytes, pos + 2, len))
         ELSE IF c = "/" /\ pos + 1 < len /\ At(bytes, pos + 1) = "*"
         THEN skip_whitespace_and_comments(bytes,
                  skip_block_comment(bytes, pos + 2, len))
         ELSE pos
    ELSE pos

---------------------------------------------------------------------------
(* wasm/json/src/simd.rs: structural scanner and structural index *)

\* The chunk size of the lane-parallel scanner: 16 lanes of 8 bits.
Lanes == 16

LaneIds == 0 .. (Lanes - 1)

RECURSIVE Pow2(_)
Pow2(n) == IF n = 0 THEN 1 ELSE 2 * Pow2(n - 1)

\* Bitwise or of two 8-bit values.
RECURSIVE BitOr(_, _, _)
BitOr(a, b, bits) ==
    IF bits = 0 THEN 0
    ELSE (IF a % 2 = 1 \/ b % 2 = 1 THEN 1 ELSE 0)
         + 2 * BitOr(a \div 2, b \div 2, bits - 1)

v128_load(bytes, i) == [l \in LaneIds |-> Ord(At(bytes, i + l))]

i8x16_splat(v) == [l \in LaneIds |-> v]

\* A lane is all ones where the two lanes are equal, all zeros elsewhere.
i8x16_eq(a, b) == [l \in LaneIds |-> IF a[l] = b[l] THEN 255 ELSE 0]

v128_or(a, b) == [l \in LaneIds |-> BitOr(a[l], b[l], 8)]

\* Bit l of the result is the high bit of lane l.
RECURSIVE BitmaskFrom(_, _)
BitmaskFrom(a, l) ==
    IF l = Lanes THEN 0
    ELSE (a[l] \div 128) * Pow2(l) + BitmaskFrom(a, l + 1)

i8x16_bitmask(a) == BitmaskFrom(a, 0)

find_structural_mask_no_single_quote(chunk) ==
    LET brace_open    == i8x16_eq(chunk, i8x16_splat(Ord("{")))
        brace_close   == i8x16_eq(chunk, i8x16_splat(Ord("}")))
        bracket_open  == i8x16_eq(chunk, i8x16_splat(Ord("[")))
        bracket_close == i8x16_eq(chunk, i8x16_splat(Ord("]")))
        colon         == i8x16_eq(chunk, i8x16_splat(Ord(":")))
        comma         == i8x16_eq(chunk, i8x16_splat(Ord(",")))
        quote         == i8x16_eq(chunk, i8x16_splat(Ord("\"")))
        structural1   == v128_or(v128_or(brace_open, brace_close),
                                 v128_or(bracket_open, bracket_close))
        structural2   == v128_or(v128_or(colon, comma), quote)
    IN  i8x16_bitmask(v128_or(structural1, structural2))

find_structural_mask(chunk) ==
    LET brace_open    == i8x16_eq(chunk, i8x16_splat(Ord("{")))
        brace_close   == i8x16_eq(chunk, i8x16_splat(Ord("}")))
        bracket_open  == i8x16_eq(chunk, i8x16_splat(Ord("[")))
        bracket_close == i8x16_eq(chunk, i8x16_splat(Ord("]")))
        colon         == i8x16_eq(chunk, i8x16_splat(Ord(":")))
        comma         == i8x16_eq(chunk, i8x16_splat(Ord(",")))
        quote         == i8x16_eq(chunk, i8x16_splat(Ord("\"")))
        single_quote  == i8x16_eq(chunk, i8x16_splat(Ord("'")))
        structural1   == v128_or(v128_or(brace_open, brace_close),
                                 v128_or(bracket_open, bracket_close))
        structural2   == v128_or(v128_or(colon, comma),
                                 v128_or(quote, single_quote))
        structural    == v128_or(structural1, structural2)
    IN  i8x16_bitmask(structural)

is_structural_char_no_colon(byte) ==
    byte \in {"{", "}", "[", "]", ",", "\"", "'"}

is_structural_char(byte) ==
    byte \in {"{", "}", "[", "]", ":", ",", "\"", "'"}

\* for bit in 0..16 { if (mask & (1 << bit)) != 0 { positions.push(i + bit) } }
RECURSIVE extract_mask_bits(_, _, _, _)
extract_mask_bits(mask, i, bit, positions) ==
    IF bit = Lanes THEN positions
    ELSE extract_mask_bits(mask, i, bit + 1,
             IF (mask \div Pow2(bit)) % 2 # 0
             THEN Append(positions, i + bit)
             ELSE positions)

\* while i < len { if is_structural_char(input[i]) { push(i) } i += 1 }
RECURSIVE scan_bytes_from(_, _, _)
scan_bytes_from(bytes, i, positions) ==
    IF i < Len(bytes)
    THEN scan_bytes_from(bytes, i + 1,
             IF is_structural_char(At(bytes, i))
             THEN Append(positions, i)
             ELSE positions)
    ELSE positions

\* while i + 16 <= len { ...chunk...; i += 16 }, then the remaining bytes.
RECURSIVE scan_chunks_from(_, _, _)
scan_chunks_from(bytes, i, positions) ==
    IF i + Lanes <= Len(bytes)
    THEN scan_chunks_from(bytes, i + Lanes,
             extract_mask_bits(find_structural_mask(v128_load(bytes, i)),
                               i, 0, positions))
    ELSE scan_bytes_from(bytes, i, positions)

find_structural_positions_scalar(bytes) == scan_bytes_from(bytes, 0, <<>>)

\* #[cfg(target_arch = "wasm32")] the lane-parallel scanner;
\* #[cfg(not(target_arch = "wasm32"))] the scalar one.
find_structural_positions_simd(arch, bytes) ==
    IF arch = "wasm32"
    THEN scan_chunks_from(bytes, 0, <<>>)
    ELSE find_structural_positions_scalar(bytes)

None == "None"

from_byte_no_single_quote(byte) ==
    CASE byte = "{" -> "BraceOpen"
      [] byte = "}" -> "BraceClose"
      [] byte = "[" -> "BracketOpen"
      [] byte = "]" -> "BracketClose"
      [] byte = ":" -> "Colon"
      [] byte = "," -> "Comma"
      [] byte = "\"" -> "Quote"
      [] OTHER -> None

\* StructType::from_byte
from_byte(byte) ==
    CASE byte = "{" -> "BraceOpen"
      [] byte = "}" -> "BraceClose"
      [] byte = "[" -> "BracketOpen"
      [] byte = "]" -> "BracketClose"
      [] byte = ":" -> "Colon"
      [] byte = "," -> "Comma"
      [] byte = "\"" -> "Quote"
      [] byte = "'" -> "SingleQuote"
      [] OTHER -> None

\* positions.iter().filter_map(|&pos| StructType::from_byte(input[pos])).collect()
RECURSIVE filter_map_types(_, _, _, _)
filter_map_types(bytes, positions, k, types) ==
    IF k > Len(positions) THEN types
    ELSE LET t == from_byte(At(bytes, positions[k])) IN
         filter_map_types(bytes, positions, k + 1,
             IF t = None THEN types ELSE Append(types, t))

\* StructuralIndex::build
build(arch, bytes) ==
    LET positions == find_structural_positions_simd(arch, bytes) IN
    [positions |-> positions,
     types     |-> filter_map_types(bytes, positions, 1, <<>>)]

\* StructuralIndex::len
index_len(idx) == Len(idx.positions)

\* StructuralIndex::get; indexing types past its end panics in the source.
index_get(idx, k) ==
    IF k < index_len(idx)
    THEN IF k < Len(idx.types)
         THEN <<idx.positions[k + 1], idx.types[k + 1]>>
         ELSE "panic"
    ELSE None

---------------------------------------------------------------------------
(* u64::from_str_radix(_, 16) and u64::to_string.  A u64 is held as its    *)
(* decimal digits, least significant first, so that values up to and past  *)
(* 2^64 - 1 are exact.                                                     *)

HexDigits == AsciiDigit \cup {"a","b","c","d","e","f","A","B","C","D","E","F"}

is_ascii_hexdigit(c) == c \in HexDigits

DigitChars == <<"0","1","2","3","4","5","6","7","8","9">>

\* char::to_digit(16)
to_digit(c) ==
    CASE c \in AsciiDigit -> (CHOOSE d \in 0..9 : DigitChars[d + 1] = c)
      [] c \in {"a", "A"} -> 10 [] c \in {"b", "B"} -> 11
      [] c \in {"c", "C"} -> 12 [] c \in {"d", "D"} -> 13
      [] c \in {"e", "E"} -> 14 [] c \in {"f", "F"} -> 15

\* u64::MAX = 18446744073709551615, least significant digit first.
U64MaxDigits == <<5,1,6,1,5,5,9,0,7,3,7,0,4,4,7,6,4,4,8,1>>

\* digits * k + carry, least significant digit first, no leading zeros.
RECURSIVE mul_add(_, _, _)
mul_add(digits, k, carry) ==
    IF digits = <<>>
    THEN IF carry = 0 THEN <<>>
         ELSE <<carry % 10>> \o mul_add(<<>>, k, carry \div 10)
    ELSE LET v == digits[1] * k + carry IN
         <<v % 10>> \o mul_add(Tail(digits), k, v \div 10)

\* a > b for two digit sequences of the same length, compared from the top.
RECURSIVE greater_same_len(_, _, _)
greater_same_len(a, b, k) ==
    IF k = 0 THEN FALSE
    ELSE IF a[k] # b[k] THEN a[k] > b[k]
    ELSE greater_same_len(a, b, k - 1)

exceeds_u64(digits) ==
    \/ Len(digits) > Len(U64MaxDigits)
    \/ /\ Len(digits) = Len(U64MaxDigits)
       /\ greater_same_len(digits, U64MaxDigits, Len(digits))

\* result = result.checked_mul(16)?.checked_add(digit)? for each character;
\* Err on overflow.
RECURSIVE from_str_radix_from(_, _, _)
from_str_radix_from(src, k, acc) ==
    IF k > Len(src) THEN Ok(acc)
    ELSE LET next == mul_add(acc, 16, to_digit(src[k])) IN
         IF exceeds_u64(next) THEN [ok |-> FALSE]
         ELSE from_str_radix_from(src, k + 1, next)

from_str_radix(src) == from_str_radix_from(src, 1, <<>>)

to_string(digits) ==
    IF digits = <<>> THEN <<"0">>
    ELSE [k \in 1 .. Len(digits) |-> DigitChars[digits[Len(digits) + 1 - k] + 1]]

---------------------------------------------------------------------------
(* wasm/json/src/lib.rs: the single-pass tokenizer *)

RECURSIVE find_string_end_ignoring_escapes(_, _, _, _)
find_string_end_ignoring_escapes(bytes, pos, quote, escaped) ==
    IF pos < Len(bytes) /\ At(bytes, pos) # quote
    THEN find_string_end_ignoring_escapes(bytes, pos + 1, quote, escaped)
    ELSE pos

\* "First pass: find string end": the offset of the closing quote, or len.
RECURSIVE find_string_end(_, _, _, _)
find_string_end(bytes, pos, quote, escaped) ==
    IF pos < Len(bytes)
    THEN LET ch == At(bytes, pos) IN
         IF escaped THEN find_string_end(bytes, pos + 1, quote, FALSE)
         ELSE IF ch = "\\" THEN find_string_end(bytes, pos + 1, quote, TRUE)
         ELSE IF ch = quote THEN pos
         ELSE find_string_end(bytes, pos + 1, quote, FALSE)
    ELSE pos

\* The "has escapes" copy loop: every branch pushes the character it read.
RECURSIVE process_escapes(_, _, _, _)
process_escapes(slice, k, escaped, processed) ==
    IF k > Len(slice) THEN processed
    ELSE LET ch == slice[k] IN
         IF escaped THEN process_escapes(slice, k + 1, FALSE, Append(processed, ch))
         ELSE IF ch = "\\"
         THEN process_escapes(slice, k + 1, TRUE, Append(processed, ch))
         ELSE process_escapes(slice, k + 1, FALSE, Append(processed, ch))

contains(slice, c) == \E k \in 1 .. Len(slice) : slice[k] = c

string_value(slice) ==
    IF contains(slice, "\\") THEN process_escapes(slice, 1, FALSE, <<>>)
    ELSE slice

\* while pos < len && is_ascii_hexdigit(bytes[pos]) { pos += 1 }
RECURSIVE hex_end(_, _, _)
hex_end(bytes, pos, len) ==
    IF pos < len /\ is_ascii_hexdigit(At(bytes, pos))
    THEN hex_end(bytes, pos + 1, len)
    ELSE pos

is_number_char(ch) ==
    is_digit(ch) \/ ch = "." \/ ch = "e" \/ ch = "E" \/ ch = "+" \/ ch = "-"

\* "Regular numbers": the greedy run of digits, '.', 'e', 'E', '+', '-'.
RECURSIVE number_end(_, _, _)
number_end(bytes, pos, len) ==
    IF pos < len /\ is_number_char(At(bytes, pos))
    THEN number_end(bytes, pos + 1, len)
    ELSE pos

\* "Convert hex to decimal": value stays as written when the parse fails.
hex_to_decimal(value) ==
    LET parsed == from_str_radix(Slice(value, 2, Len(value))) IN
    IF parsed.ok THEN to_string(parsed.value) ELSE value

RECURSIVE identifier_end(_, _, _)
identifier_end(bytes, pos, len) ==
    IF pos < len /\ is_identifier_char(At(bytes, pos))
    THEN identifier_end(bytes, pos + 1, len)
    ELSE pos

keyword_type(value) ==
    CASE value = <<"t","r","u","e">>     -> "True"
      [] value = <<"f","a","l","s","e">> -> "False"
      [] value = <<"n","u","l","l">>     -> "Null"
      [] OTHER                           -> "Identifier"

single_char_type(c) ==
    CASE c = "{" -> "LeftBrace"   [] c = "}" -> "RightBrace"
      [] c = "[" -> "LeftBracket" [] c = "]" -> "RightBracket"
      [] c = ":" -> "Colon"       [] c = "," -> "Comma"
      [] OTHER -> None

\* The string branch of tokenize (lib.rs 66-113): the token and the new pos.
tokenize_string(bytes, start) ==
    LET quote        == At(bytes, start)
        string_start == start + 1
        string_end   == find_string_end(bytes, string_start, quote, FALSE)
        value        == string_value(Slice(bytes, string_start, string_end))
        pos          == string_end + 1
    IN  [ok |-> TRUE, token |-> Token("String", value, start, pos), pos |-> pos]

\* The number branch of tokenize (lib.rs 116-169).
tokenize_number(bytes, start) ==
    LET len  == Len(bytes)
        c    == At(bytes, start)
        pos1 == start + 1
        value1 == IF c = "+" THEN <<>> ELSE <<c>>
    IN  IF c = "+" /\ pos1 >= len
        THEN ParseError("Unexpected end after +", pos1)
        ELSE IF pos1 < len /\ value1 = <<"0">> /\ At(bytes, pos1) = "x"
        THEN LET hex_start == pos1 + 1
                 pos       == hex_end(bytes, hex_start, len)
                 value     == <<"0", "x">> \o Slice(bytes, hex_start, pos)
             IN  IF pos = hex_start
                 THEN ParseError("Invalid hex number", start)
                 ELSE [ok |-> TRUE, pos |-> pos,
                       token |-> Token("Number", hex_to_decimal(value), start, pos)]
        ELSE LET pos   == number_end(bytes, pos1, len)
                 value == value1 \o Slice(bytes, pos1, pos)
             IN  [ok |-> TRUE, pos |-> pos,
                  token |-> Token("Number", value, start, pos)]

\* The identifier branch of tokenize (lib.rs 172-188).
tokenize_identifier(bytes, start) ==
    LET pos   == identifier_end(bytes, start, Len(bytes))
        value == Slice(bytes, start, pos)
    IN  [ok |-> TRUE, pos |-> pos,
         token |-> Token(keyword_type(value), value, start, pos)]

tokenize_single_char_without_advance(bytes, start) ==
    LET c == At(bytes, start) IN
    IF single_char_type(c) = None
    THEN ParseError("Unexpected character: " \o c, start)
    ELSE [ok |-> TRUE, pos |-> start,
          token |-> Token(single_char_type(c), <<>>, start, start + 1)]

tokenize_single_char_error_after(bytes, start) ==
    LET c == At(bytes, start) IN
    IF single_char_type(c) = None
    THEN ParseError("Unexpected character: " \o c, start + 1)
    ELSE [ok |-> TRUE, pos |-> start + 1,
          token |-> Token(single_char_type(c), <<>>, start, start + 1)]

\* The single-character branch of tokenize (lib.rs 191-202).
tokenize_single_char(bytes, start) ==
    LET c == At(bytes, start) IN
    IF single_char_type(c) = None
    THEN ParseError("Unexpected character: " \o c, start)
    ELSE [ok |-> TRUE, pos |-> start + 1,
          token |-> Token(single_char_type(c), <<>>, start, start + 1)]

\* One pass of the while loop of tokenize, at offset pos0 with the tokens
\* pushed so far: either the loop goes on at a new offset with one more
\* token, or tokenize returns (the EOF push after the loop, or an Err).
tokenize_step(bytes, pos0, toks) ==
    LET len == Len(bytes)
        eof == [done |-> TRUE,
                result |-> Ok(Append(toks, Token("EOF", <<>>, len, len)))]
    IN
    IF pos0 < len
    THEN LET pos == skip_whitespace_and_comments(bytes, pos0) IN
         IF pos >= len THEN eof
         ELSE LET c == At(bytes, pos)
                  step == IF c = "\"" \/ c = "'"
                          THEN tokenize_string(bytes, pos)
                          ELSE IF is_digit(c) \/ c = "-" \/ c = "+" \/ c = "."
                          THEN tokenize_number(bytes, pos)
                          ELSE IF is_identifier_start(c)
                          THEN tokenize_identifier(bytes, pos)
                          ELSE tokenize_single_char(bytes, pos)
              IN  IF step.ok
                  THEN [done |-> FALSE, pos |-> step.pos,
                        toks |-> Append(toks, step.token)]
                  ELSE [done |-> TRUE, result |-> step]
    ELSE eof

\* The while loop of tokenize, from offset pos0 with the tokens pushed so far.
RECURSIVE tokenize_from(_, _, _)
tokenize_from(bytes, pos0, toks) ==
    LET s == tokenize_step(bytes, pos0, toks) IN
    IF s.done THEN s.result ELSE tokenize_from(bytes, s.pos, s.toks)

tokenize(bytes) == tokenize_from(bytes, 0, <<>>)

---------------------------------------------------------------------------
(* wasm/json/src/lib.rs: the reconstructor *)

\* The String arm's loop over the bytes of token.value: st is
\* [result, last_escape] after the bytes before offset idx.
RECURSIVE escape_quotes_from(_, _, _)
escape_quotes_from(value, idx, st) ==
    IF idx >= Len(value) THEN st
    ELSE IF At(value, idx) = "\""
            /\ (idx = 0 \/ At(value, idx - 1) # "\\")
    THEN escape_quotes_from(value, idx + 1,
             [result |-> st.result \o Slice(value, st.last_escape, idx)
                                   \o <<"\\", "\"">>,
              last_escape |-> idx + 1])
    ELSE escape_quotes_from(value, idx + 1, st)

push_string_escape_every_quote(result, value) ==
    Append(Append(result, "\"")
               \o Join([k \in 1 .. Len(value) |->
                            IF value[k] = "\"" THEN <<"\\", "\"">> ELSE <<value[k]>>],
                       <<>>),
           "\"")

\* The String arm of reconstruct_json (lib.rs 223-246).
push_string(result, value) ==
    LET st == escape_quotes_from(value, 0,
                  [result |-> Append(result, "\""), last_escape |-> 0])
        rest == IF st.last_escape < Len(value)
                THEN Slice(value, st.last_escape, Len(value))
                ELSE <<>>
    IN  Append(st.result \o rest, "\"")

pop_trailing_comma_never(result) == result

\* if let Some(&b',') = result.as_bytes().last() { result.pop(); }
pop_trailing_comma(result) ==
    IF Len(result) > 0 /\ result[Len(result)] = ","
    THEN SubSeq(result, 1, Len(result) - 1)
    ELSE result

\* The Comma arm of reconstruct_json (lib.rs 288-298).
push_comma(result, toks, i) ==
    IF i + 1 < Len(toks)
    THEN IF At(toks, i + 1).token_type \notin {"RightBrace", "RightBracket", "EOF"}
         THEN Append(result, ",")
         ELSE result
    ELSE result

\* One pass of the while loop of reconstruct_json, at token i with the
\* text so far: the text after the arm of token i, or the end of the loop.
reconstruct_step(toks, i, result) ==
    IF i < Len(toks)
    THEN LET token == At(toks, i)
             t     == token.token_type
         IN  IF t = "EOF" THEN [done |-> TRUE, result |-> result]
             ELSE [done |-> FALSE, i |-> i + 1, result |->
                 CASE t = "String"       -> push_string(result, token.value)
                   [] t = "Number"       -> result \o token.value
                   [] t = "True"         -> result \o <<"t","r","u","e">>
                   [] t = "False"        -> result \o <<"f","a","l","s","e">>
                   [] t = "Null"         -> result \o <<"n","u","l","l">>
                   [] t = "Identifier"   ->
                          Append(Append(result, "\"") \o token.value, "\"")
                   [] t = "LeftBrace"    -> Append(result, "{")
                   [] t = "RightBrace"   -> Append(pop_trailing_comma(result), "}")
                   [] t = "LeftBracket"  -> Append(result, "[")
                   [] t = "RightBracket" -> Append(pop_trailing_comma(result), "]")
                   [] t = "Colon"        -> Append(result, ":")
                   [] t = "Comma"        -> push_comma(result, toks, i)]
    ELSE [done |-> TRUE, result |-> result]

\* The while loop of reconstruct_json, from token i with the text so far.
RECURSIVE reconstruct_from(_, _, _)
reconstruct_from(toks, i, result) ==
    LET s == reconstruct_step(toks, i, result) IN
    IF s.done THEN s.result ELSE reconstruct_from(toks, s.i, s.result)

reconstruct_json(toks) == reconstruct_from(toks, 0, <<>>)

\* clean_dirty_json_internal: Result<String, ParseError>
clean_dirty_json_internal(bytes) ==
    LET toks == tokenize(bytes) IN
    IF toks.ok THEN Ok(reconstruct_json(toks.value)) ELSE toks

\* .map_err(|e| JsValue::from_str(&e.message)): the position is dropped.
map_err_message(res) ==
    IF res.ok THEN res ELSE [ok |-> FALSE, message |-> res.message]

\* clean_dirty_json: Result<String, JsValue>
clean_dirty_json(bytes) == map_err_message(clean_dirty_json_internal(bytes))

---------------------------------------------------------------------------
(* wasm/json/src/two_stage.rs: the two-stage extractor *)

\* u8::is_ascii_whitespace: space, tab, line feed, form feed, carriage return.
is_ascii_whitespace(c) == c \in {" ", "\t", "\n", "\f", "\r"}

\* char::is_alphabetic of (byte as char): the ASCII letters and, of the
\* bytes modelled, U+00FB.
is_alphabetic(c) == c \in AsciiLower \cup AsciiUpper \cup {HighByte}

is_alphanumeric(c) == is_alphabetic(c) \/ c \in AsciiDigit

\* String::from_utf8_lossy: a byte that is no valid UTF-8 becomes U+FFFD.
from_utf8_lossy(bytes) ==
    [k \in 1 .. Len(bytes) |-> IF bytes[k] = HighByte THEN "U+FFFD" ELSE bytes[k]]

RECURSIVE skip_line_comment_range(_, _, _)
skip_line_comment_range(bytes, pos, end) ==
    IF pos < end /\ At(bytes, pos) # "\n"
    THEN skip_line_comment_range(bytes, pos + 1, end)
    ELSE pos

RECURSIVE skip_block_comment_range(_, _, _)
skip_block_comment_range(bytes, pos, end) ==
    IF pos + 1 < end
    THEN IF At(bytes, pos) = "*" /\ At(bytes, pos + 1) = "/"
         THEN pos + 2
         ELSE skip_block_comment_range(bytes, pos + 1, end)
    ELSE pos

RECURSIVE skip_whitespace_and_comments_range(_, _, _)
skip_whitespace_and_comments_range(bytes, pos, end) ==
    IF pos < end
    THEN LET c == At(bytes, pos) IN
         IF is_ascii_whitespace(c)
         THEN skip_whitespace_and_comments_range(bytes, pos + 1, end)
         ELSE IF c = "/" /\ pos + 1 < end /\ At(bytes, pos + 1) = "/"
         THEN skip_whitespace_and_comments_range(bytes,
                  skip_line_comment_range(bytes, pos + 2, end), end)
         ELSE IF c = "/" /\ pos + 1 < end /\ At(bytes, pos + 1) = "*"
         THEN skip_whitespace_and_comments_range(bytes,
                  skip_block_comment_range(bytes, pos + 2, end), end)
         ELSE pos
    ELSE pos

\* while check_pos > start_pos && input[check_pos] == b'\\'
\*     { backslash_count += 1; if check_pos == 0 { break } check_pos -= 1 }
\* Counts the backslash before the candidate only.
count_backslashes_last_only(bytes, check_pos, start_pos, backslash_count) ==
    IF check_pos > start_pos /\ At(bytes, check_pos) = "\\" THEN 1 ELSE 0

RECURSIVE count_backslashes(_, _, _, _)
count_backslashes(bytes, check_pos, start_pos, backslash_count) ==
    IF check_pos > start_pos /\ At(bytes, check_pos) = "\\"
    THEN IF check_pos = 0 THEN backslash_count + 1
         ELSE count_backslashes(bytes, check_pos - 1, start_pos,
                                backslash_count + 1)
    ELSE backslash_count

\* The while loop of extract_string, at index entry i with the escaped flag
\* left by the entries before it.
RECURSIVE extract_string_from(_, _, _, _, _, _)
extract_string_from(bytes, idx, start_pos, quote_type, i, escaped0) ==
    IF i < index_len(idx)
    THEN LET e   == index_get(idx, i)
             pos == e[1]
             typ == e[2]
             escaped ==
                 IF pos > start_pos + 1
                 THEN IF At(bytes, pos - 1) = "\\"
                      THEN count_backslashes(bytes, pos - 1, start_pos, 0) % 2 = 1
                      ELSE FALSE
                 ELSE escaped0
         IN  IF typ = quote_type /\ ~escaped
             THEN [ok |-> TRUE, next |-> i + 1,
                   token |-> Token("String",
                                   from_utf8_lossy(Slice(bytes, start_pos + 1, pos)),
                                   start_pos, pos + 1)]
             ELSE extract_string_from(bytes, idx, start_pos, quote_type,
                                      i + 1, escaped)
    ELSE ParseError("Unterminated string", start_pos)

extract_string(bytes, idx, start_idx, quote_type) ==
    extract_string_from(bytes, idx, At(idx.positions, start_idx), quote_type,
                        start_idx + 1, FALSE)

RECURSIVE hex_end_range(_, _, _)
hex_end_range(bytes, pos, end) ==
    IF pos < end /\ is_ascii_hexdigit(At(bytes, pos))
    THEN hex_end_range(bytes, pos + 1, end)
    ELSE pos

RECURSIVE number_end_range(_, _, _)
number_end_range(bytes, pos, end) ==
    IF pos < end /\ is_number_char(At(bytes, pos))
    THEN number_end_range(bytes, pos + 1, end)
    ELSE pos

RECURSIVE identifier_end_range(_, _, _)
identifier_end_range(bytes, pos, end) ==
    IF pos < end /\ (is_alphanumeric(At(bytes, pos))
                     \/ At(bytes, pos) = "_" \/ At(bytes, pos) = "$")
    THEN identifier_end_range(bytes, pos + 1, end)
    ELSE pos

\* extract_value_tokens: at most one token from the bytes of [start, end).
extract_value_tokens(bytes, start, end, toks) ==
    LET pos0 == skip_whitespace_and_comments_range(bytes, start, end) IN
    IF pos0 >= end THEN Ok(toks)
    ELSE
    LET c == At(bytes, pos0) IN
    IF is_digit(c) \/ c = "-" \/ c = "+" \/ c = "."
    THEN LET pos1   == pos0 + 1
             value1 == IF c = "+" THEN <<>> ELSE <<c>>
         IN  IF c = "+" /\ pos1 >= end THEN Ok(toks)
             ELSE IF pos1 < end /\ value1 = <<"0">> /\ At(bytes, pos1) = "x"
             THEN LET hex_start == pos1 + 1
                      pos       == hex_end_range(bytes, hex_start, end)
                      value     == <<"0", "x">> \o Slice(bytes, hex_start, pos)
                  IN  IF pos = hex_start
                      THEN ParseError("Invalid hex number", start)
                      ELSE Ok(Append(toks,
                               Token("Number", hex_to_decimal(value), start, pos)))
             ELSE LET pos   == number_end_range(bytes, pos1, end)
                      value == value1 \o Slice(bytes, pos1, pos)
                  IN  Ok(Append(toks, Token("Number", value, start, pos)))
    ELSE IF is_alphabetic(c) \/ c = "_" \/ c = "$"
    THEN LET pos   == identifier_end_range(bytes, pos0, end)
             value == Slice(bytes, pos0, pos)
         IN  Ok(Append(toks, Token(keyword_type(value), value, start, pos)))
    ELSE Ok(toks)

punctuation_type(typ) ==
    CASE typ = "BraceOpen"    -> "LeftBrace"
      [] typ = "BraceClose"   -> "RightBrace"
      [] typ = "BracketOpen"  -> "LeftBracket"
      [] typ = "BracketClose" -> "RightBracket"
      [] typ = "Colon"        -> "Colon"
      [] typ = "Comma"        -> "Comma"

\* One pass of the while loop of extract_tokens, at index entry i: the
\* token of the entry, then the value tokens of the gap after it; or the
\* end of the loop (the EOF push, or an Err).
extract_tokens_step(bytes, idx, i, toks) ==
    IF i < index_len(idx)
    THEN LET e   == index_get(idx, i)
             pos == e[1]
             typ == e[2]
             step == IF typ \in {"Quote", "SingleQuote"}
                     THEN extract_string(bytes, idx, i, typ)
                     ELSE [ok |-> TRUE, next |-> i + 1,
                           token |-> Token(punctuation_type(typ), <<>>,
                                           pos, pos + 1)]
         IN  IF ~step.ok THEN [done |-> TRUE, result |-> step]
             ELSE LET toks1 == Append(toks, step.token)
                      gap == IF step.next < index_len(idx)
                                /\ At(idx.positions, step.next) > pos + 1
                             THEN extract_value_tokens(bytes, pos + 1,
                                      At(idx.positions, step.next), toks1)
                             ELSE Ok(toks1)
                  IN  IF gap.ok
                      THEN [done |-> FALSE, i |-> step.next, toks |-> gap.value]
                      ELSE [done |-> TRUE, result |-> gap]
    ELSE [done |-> TRUE,
          result |-> Ok(Append(toks, Token("EOF", <<>>, Len(bytes), Len(bytes))))]

\* The while loop of extract_tokens, at index entry i.
RECURSIVE extract_tokens_from(_, _, _, _)
extract_tokens_from(bytes, idx, i, toks) ==
    LET s == extract_tokens_step(bytes, idx, i, toks) IN
    IF s.done THEN s.result ELSE extract_tokens_from(bytes, idx, s.i, s.toks)

extract_tokens(bytes, idx) == extract_tokens_from(bytes, idx, 0, <<>>)

parse_two_stage(arch, bytes) == extract_tokens(bytes, build(arch, bytes))

\* clean_dirty_json_simd: Result<String, JsValue>
clean_dirty_json_simd(arch, bytes) ==
    LET toks == parse_two_stage(arch, bytes) IN
    map_err_message(IF toks.ok THEN Ok(reconstruct_json(toks.value)) ELSE toks)

---------------------------------------------------------------------------
(* wasm/csv/src/lib.rs: the CSV serializer and parser *)

\* serde_json::Value, for the values the CSV functions are given here:
\* strings, null and arrays.
ValueString(s)    == [kind |-> "String", value |-> s]
ValueNull         == [kind |-> "Null", value |-> <<>>]
ValueArray(items) == [kind |-> "Array", value |-> items]

\* Err(String) of Result<String, String>.
Err(message) == [ok |-> FALSE, message |-> message]

\* field.replace('"', "\"\"")
double_quotes(field) ==
    Join([k \in 1 .. Len(field) |->
              IF field[k] = "\"" THEN <<"\"", "\"">> ELSE <<field[k]>>],
         <<>>)

\* serialize_field(field, delimiter, quote_all) (lib.rs 309-322).
serialize_field(field, delimiter, quote_all) ==
    LET needs_quotes == \/ quote_all
                        \/ contains(field, delimiter)
                        \/ contains(field, "\"")
                        \/ contains(field, "\n")
                        \/ contains(field, "\r")
    IN  IF needs_quotes
        THEN <<"\"">> \o double_quotes(field) \o <<"\"">>
        ELSE field

\* value_to_string(value) (lib.rs 299-307), for a string and for null.
value_to_string(value) ==
    CASE value.kind = "String" -> value.value
      [] value.kind = "Null"   -> <<>>

\* The loop over the values of one row (lib.rs 277-283): out after the
\* fields from number i on.
RECURSIVE stringify_fields_from(_, _, _, _, _)
stringify_fields_from(arr, i, out, delimiter, quote_all) ==
    IF i >= Len(arr) THEN out
    ELSE LET sep   == IF i > 0 THEN <<delimiter>> ELSE <<>>
             field == value_to_string(At(arr, i))
         IN  stringify_fields_from(arr, i + 1,
                 out \o sep \o serialize_field(field, delimiter, quote_all),
                 delimiter, quote_all)

\* The loop over the rows of an array of arrays (lib.rs 275-285): the
\* first row that is not an array ends the call with an error.
RECURSIVE stringify_rows_from(_, _, _, _, _)
stringify_rows_from(array, r, out, delimiter, quote_all) ==
    IF r >= Len(array) THEN Ok(out)
    ELSE LET row == At(array, r) IN
         IF row.kind # "Array" THEN Err("Row must be an array")
         ELSE stringify_rows_from(array, r + 1,
                  Append(stringify_fields_from(row.value, 0, out,
                                               delimiter, quote_all),
                         "\n"),
                  delimiter, quote_all)

\* if output.ends_with('\n') { output.pop(); }
pop_trailing_newline(out) ==
    IF Len(out) > 0 /\ out[Len(out)] = "\n"
    THEN SubSeq(out, 1, Len(out) - 1)
    ELSE out

\* stringify_csv_internal(data, delimiter, include_header, quote_all)
\* (lib.rs 213-297) for data without objects: include_header is read only
\* in the array-of-objects branch (lib.rs 229-272).
stringify_csv_internal(data, delimiter, quote_all) ==
    IF data.kind # "Array" THEN Err("Input must be an array")
    ELSE IF Len(data.value) = 0 THEN Ok(<<>>)
    ELSE IF data.value[1].kind = "Array"
    THEN LET out == stringify_rows_from(data.value, 0, <<>>,
                                        delimiter, quote_all)
         IN  IF out.ok THEN Ok(pop_trailing_newline(out.value)) ELSE out
    ELSE Err("Array elements must be objects or arrays")

\* current_line.push(current_field.clone()); current_field.clear();
\* if !current_line.is_empty() { lines.push(...); current_line.clear(); }
end_of_line(st) ==
    LET line == Append(st.current_line, st.current_field) IN
    IF Len(line) > 0
    THEN [st EXCEPT !.lines = Append(st.lines, line),
                    !.current_line = <<>>, !.current_field = <<>>]
    ELSE [st EXCEPT !.current_line = line, !.current_field = <<>>]

\* One pass of the while loop of parse_csv_internal (lib.rs 82-125): ch is
\* the character at pos, chars.peek() the one after it.
parse_csv_step(chars, st, delimiter) ==
    LET pos     == st.pos
        ch      == At(chars, pos)
        peek_is(c) == pos + 1 < Len(chars) /\ At(chars, pos + 1) = c
    IN  IF st.in_quotes
        THEN IF ch = "\""
             THEN IF peek_is("\"")
                  THEN [st EXCEPT !.pos = pos + 2,
                                  !.current_field = Append(@, "\"")]
                  ELSE [st EXCEPT !.pos = pos + 1, !.in_quotes = FALSE]
             ELSE [st EXCEPT !.pos = pos + 1, !.current_field = Append(@, ch)]
        ELSE IF ch = "\""
             THEN [st EXCEPT !.pos = pos + 1, !.in_quotes = TRUE]
        ELSE IF ch = delimiter
             THEN [st EXCEPT !.pos = pos + 1,
                             !.current_line = Append(@, st.current_field),
                             !.current_field = <<>>]
        ELSE IF ch = "\n"
             THEN [end_of_line(st) EXCEPT !.pos = pos + 1]
        ELSE IF ch = "\r"
             THEN [end_of_line(st) EXCEPT
                       !.pos = IF peek_is("\n") THEN pos + 2 ELSE pos + 1]
        ELSE [st EXCEPT !.pos = pos + 1, !.current_field = Append(@, ch)]

RECURSIVE parse_csv_loop(_, _, _)
parse_csv_loop(chars, st, delimiter) ==
    IF st.pos >= Len(chars) THEN st
    ELSE parse_csv_loop(chars, parse_csv_step(chars, st, delimiter), delimiter)

\* The rows of parse_csv_internal (lib.rs 75-133): the loop, then the last
\* field and line.
parse_csv_lines(chars, delimiter) ==
    LET st == parse_csv_loop(chars,
                  [pos |-> 0, lines |-> <<>>, current_line |-> <<>>,
                   current_field |-> <<>>, in_quotes |-> FALSE],
                  delimiter)
    IN  IF Len(st.current_field) > 0 \/ Len(st.current_line) > 0
        THEN Append(st.lines, Append(st.current_line, st.current_field))
        ELSE st.lines

\* parse_csv_internal(input, delimiter, false, false) (lib.rs 69-186): the
\* value that serde_json::to_string writes, "[]" for no line and else the
\* array of the arrays of the fields as Value::String (lib.rs 165-182).
parse_csv_internal(chars, delimiter) ==
    LET lines == parse_csv_lines(chars, delimiter) IN
    IF Len(lines) = 0 THEN ValueArray(<<>>)
    ELSE ValueArray([r \in 1 .. Len(lines) |->
             ValueArray([f \in 1 .. Len(lines[r]) |->
                            ValueString(lines[r][f])])])

---------------------------------------------------------------------------
(* The calls.  Every call is a pure function of the input buffer; a result *)
(* variable holds what the call returned.                                  *)

Targets == {"wasm32", "other"}

InitWith(archs, inputs) ==
    /\ target_arch \in archs
    /\ input \in inputs
    /\ called = {}
    /\ positions_simd = <<>>
    /\ positions_scalar = <<>>
    /\ index = [positions |-> <<>>, types |-> <<>>]
    /\ tokens = Ok(<<>>)
    /\ output = Ok(<<>>)
    /\ tokens_simd = Ok(<<>>)
    /\ output_simd = Ok(<<>>)
    /\ skipped = [pos |-> 0, result |-> 0]
    /\ cleaning = [phase |-> "idle", path |-> "", pos |-> 0, toks |-> <<>>,
                   text |-> <<>>, result |-> Ok(<<>>)]
    /\ closers = [open |-> 0, single_pass |-> 0,
                  two_stage |-> [found |-> FALSE, closer |-> 0]]
    /\ csv = [phase |-> "idle", data |-> ValueArray(<<>>), delimiter |-> ",",
              quote_all |-> FALSE, text |-> Ok(<<>>),
              parsed |-> ValueArray(<<>>)]

FindStructuralPositionsSimd ==
    /\ "find_structural_positions_simd" \notin called
    /\ called' = called \cup {"find_structural_positions_simd"}
    /\ positions_simd' = find_structural_positions_simd(target_arch, input)
    /\ UNCHANGED <<target_arch, input, positions_scalar, index,
                   tokens, output, tokens_simd, output_simd,
                   skipped, cleaning,
                   closers, csv>>

FindStructuralPositionsScalar ==
    /\ "find_structural_positions_scalar" \notin called
    /\ called' = called \cup {"find_structural_positions_scalar"}
    /\ positions_scalar' = find_structural_positions_scalar(input)
    /\ UNCHANGED <<target_arch, input, positions_simd, index,
                   tokens, output, tokens_simd, output_simd,
                   skipped, cleaning,
                   closers, csv>>

BuildIndex ==
    /\ "build" \notin called
    /\ called' = called \cup {"build"}
    /\ index' = build(target_arch, input)
    /\ UNCHANGED <<target_arch, input, positions_simd, positions_scalar,
                   tokens, output, tokens_simd, output_simd,
                   skipped, cleaning,
                   closers, csv>>

\* clean_dirty_json_internal(input): tokenize, then reconstruct_json.
CleanDirtyJson ==
    /\ "clean_dirty_json" \notin called
    /\ called' = called \cup {"clean_dirty_json"}
    /\ LET toks == tokenize(input) IN
       /\ tokens' = toks
       /\ output' = IF toks.ok THEN Ok(reconstruct_json(toks.value)) ELSE toks
    /\ UNCHANGED <<target_arch, input, positions_simd, positions_scalar, index,
                   tokens_simd, output_simd,
                   skipped, cleaning,
                   closers, csv>>

\* clean_dirty_json_simd(input): parse_two_stage, then reconstruct_json.
CleanDirtyJsonSimd ==
    /\ "clean_dirty_json_simd" \notin called
    /\ called' = called \cup {"clean_dirty_json_simd"}
    /\ LET toks == parse_two_stage(target_arch, input) IN
       /\ tokens_simd' = toks
       /\ output_simd' = map_err_message(
              IF toks.ok THEN Ok(reconstruct_json(toks.value)) ELSE toks)
    /\ UNCHANGED <<target_arch, input, positions_simd, positions_scalar, index,
                   tokens, output,
                   skipped, cleaning,
                   closers, csv>>

\* skip_whitespace_and_comments(input, pos) for a start offset pos <= len.
SkipWhitespaceAndComments ==
    /\ "skip_whitespace_and_comments" \notin called
    /\ called' = called \cup {"skip_whitespace_and_comments"}
    /\ \E pos \in 0 .. Len(input) :
           skipped' = [pos |-> pos,
                       result |-> skip_whitespace_and_comments(input, pos)]
    /\ UNCHANGED <<target_arch, input, positions_simd, positions_scalar, index,
                   tokens, output, tokens_simd, output_simd, cleaning,
                   closers, csv>>

\* The cleaners one loop pass at a time.  cleaning.pos is the loop variable of
\* the loop in progress: the byte offset pos of tokenize, the index entry i
\* of extract_tokens, the token number i of reconstruct_json.

\* clean_dirty_json_internal is entered: tokenize starts with pos = 0.
TokenizeStart ==
    /\ cleaning.phase = "idle"
    /\ cleaning' = [cleaning EXCEPT !.phase = "tokenize", !.path = "tokenize"]
    /\ UNCHANGED <<target_arch, input, called, positions_simd, positions_scalar,
                   index, tokens, output, tokens_simd, output_simd, skipped,
                   closers, csv>>

\* The loop of a tokenizer has ended with res: an Err is returned to the
\* caller, an Ok stream goes to reconstruct_json, which starts with i = 0.
TokenizerReturns(res) ==
    IF res.ok
    THEN [cleaning EXCEPT !.phase = "reconstruct", !.pos = 0,
                          !.toks = res.value]
    ELSE [cleaning EXCEPT !.phase = "done", !.result = res]

\* One pass of the while loop of tokenize.
TokenizeStep ==
    /\ cleaning.phase = "tokenize"
    /\ LET s == tokenize_step(input, cleaning.pos, cleaning.toks) IN
       cleaning' = IF s.done THEN TokenizerReturns(s.result)
                   ELSE [cleaning EXCEPT !.pos = s.pos, !.toks = s.toks]
    /\ UNCHANGED <<target_arch, input, called, positions_simd, positions_scalar,
                   index, tokens, output, tokens_simd, output_simd, skipped,
                   closers, csv>>

\* clean_dirty_json_simd is entered: parse_two_stage builds the index and
\* extract_tokens starts with i = 0.
ExtractStart ==
    /\ cleaning.phase = "idle"
    /\ index' = build(target_arch, input)
    /\ cleaning' = [cleaning EXCEPT !.phase = "extract", !.path = "parse_two_stage"]
    /\ UNCHANGED <<target_arch, input, called, positions_simd, positions_scalar,
                   tokens, output, tokens_simd, output_simd, skipped,
                   closers, csv>>

\* One pass of the while loop of extract_tokens.
ExtractStep ==
    /\ cleaning.phase = "extract"
    /\ LET s == extract_tokens_step(input, index, cleaning.pos, cleaning.toks) IN
       cleaning' = IF s.done THEN TokenizerReturns(s.result)
                   ELSE [cleaning EXCEPT !.pos = s.i, !.toks = s.toks]
    /\ UNCHANGED <<target_arch, input, called, positions_simd, positions_scalar,
                   index, tokens, output, tokens_simd, output_simd, skipped,
                   closers, csv>>

\* One pass of the while loop of reconstruct_json.
ReconstructStep ==
    /\ cleaning.phase = "reconstruct"
    /\ LET s == reconstruct_step(cleaning.toks, cleaning.pos, cleaning.text) IN
       cleaning' = IF s.done
                   THEN [cleaning EXCEPT !.phase = "done", !.text = s.result,
                                         !.result = Ok(s.result)]
                   ELSE [cleaning EXCEPT !.pos = s.i, !.text = s.result]
    /\ UNCHANGED <<target_arch, input, called, positions_simd, positions_scalar,
                   index, tokens, output, tokens_simd, output_simd, skipped,
                   closers, csv>>

\* Every stream of the token kinds of TokenKinds, up to MaxTokens tokens,
\* closed by the EndOfInput token that both tokenizers push last.
TokenText(kind) ==
    CASE kind = "LeftBracket"  -> <<"[">>
      [] kind = "RightBracket" -> <<"]">>
      [] kind = "RightBrace"   -> <<"}">>
      [] kind = "Comma"        -> <<",">>
      [] kind = "Number"       -> <<"1">>

StreamOf(kinds) ==
    [k \in 1 .. (Len(kinds) + 1) |->
        IF k <= Len(kinds)
        THEN Token(kinds[k], TokenText(kinds[k]), k - 1, k)
        ELSE Token("EOF", <<>>, Len(kinds), Len(kinds))]

MaxTokens == 5

TokenKinds == {"LeftBracket", "RightBracket", "RightBrace", "Comma", "Number"}

TokenStreams == {StreamOf(kinds) : kinds \in SeqsUpTo(TokenKinds, MaxTokens)}

\* reconstruct_json(tokens) is entered with a token stream: result is
\* empty and i = 0.
ReconstructStart ==
    /\ cleaning.phase = "idle"
    /\ \E stream \in TokenStreams :
           cleaning' = [cleaning EXCEPT !.phase = "reconstruct",
                                        !.path = "reconstruct", !.pos = 0,
                                        !.toks = stream, !.text = <<>>]
    /\ UNCHANGED <<target_arch, input, called, positions_simd, positions_scalar,
                   index, tokens, output, tokens_simd, output_simd, skipped,
                   closers, csv>>

\* Arrays of up to nr rows of up to nf string fields of up to n characters.
CsvChars == {",", ";", "\"", "\n", "\r", "a"}

CsvDelimiters == {",", ";"}

CsvRow(fields) == ValueArray([k \in 1 .. Len(fields) |-> ValueString(fields[k])])

CsvArrays(nr, nf, n) ==
    LET rows == {CsvRow(fields) : fields \in SeqsUpTo(SeqsUpTo(CsvChars, n), nf)}
    IN  {ValueArray(rs) : rs \in SeqsUpTo(rows, nr)}

\* Arrays with longer fields: doubled quotes, a quoted CRLF, a delimiter
\* between quotes.
CsvSamples ==
    {ValueArray(<<CsvRow(<<<<"a", "\"", "b">>, <<"a", ",", "b">>>>),
                  CsvRow(<<<<"\r", "\n">>, <<"\"", "\"">>>>)>>),
     ValueArray(<<CsvRow(<<<<"a", "a">>, <<>>, <<"a", ";">>>>),
                  CsvRow(<<<<"\"", ",", "\"">>>>),
                  CsvRow(<<<<"a", "\n", "a">>, <<"a">>>>)>>)}

MaxRows == 2

MaxFields == 2

MaxFieldLen == 1

\* stringify_csv_internal(data, delimiter, _, quote_all) is called.
StringifyCsv ==
    /\ csv.phase = "idle"
    /\ \E data \in CsvArrays(MaxRows, MaxFields, MaxFieldLen) \cup CsvSamples,
          delimiter \in CsvDelimiters, quote_all \in BOOLEAN :
           csv' = [csv EXCEPT !.phase = "stringified", !.data = data,
                              !.delimiter = delimiter, !.quote_all = quote_all,
                              !.text = stringify_csv_internal(data, delimiter,
                                                              quote_all)]
    /\ UNCHANGED <<target_arch, input, called, positions_simd, positions_scalar,
                   index, tokens, output, tokens_simd, output_simd, skipped,
                   cleaning, closers>>

\* parse_csv_internal(text, delimiter, false, false) is called on the
\* text that stringify_csv_internal returned, with the same delimiter.
ParseCsv ==
    /\ csv.phase = "stringified"
    /\ csv.text.ok
    /\ csv' = [csv EXCEPT !.phase = "parsed",
                          !.parsed = parse_csv_internal(csv.text.value,
                                                        csv.delimiter)]
    /\ UNCHANGED <<target_arch, input, called, positions_simd, positions_scalar,
                   index, tokens, output, tokens_simd, output_simd, skipped,
                   cleaning, closers>>

\* The closing quote for the opening quote at index entry k, as each path
\* finds it: the string end scan of tokenize, and extract_string.
FindClosingQuote ==
    /\ "find_closing_quote" \notin called
    /\ called' = called \cup {"find_closing_quote"}
    /\ LET idx == build(target_arch, input) IN
       \E k \in 0 .. (index_len(idx) - 1) :
           LET open == index_get(idx, k)[1]
               typ  == index_get(idx, k)[2]
               res  == extract_string(input, idx, k, typ)
           IN  /\ typ \in {"Quote", "SingleQuote"}
               /\ closers' =
                      [open |-> open,
                       single_pass |->
                           find_string_end(input, open + 1, At(input, open), FALSE),
                       two_stage |->
                           IF res.ok
                           THEN [found |-> TRUE, closer |-> res.token.end - 1]
                           ELSE [found |-> FALSE, closer |-> 0]]
    /\ UNCHANGED <<target_arch, input, positions_simd, positions_scalar, index,
                   tokens, output, tokens_simd, output_simd, skipped, cleaning, csv>>

\* Whether each call has returned.
ScannedSimd   == "find_structural_positions_simd" \in called
ScannedScalar == "find_structural_positions_scalar" \in called
Built         == "build" \in called
Cleaned       == "clean_dirty_json" \in called
CleanedSimd   == "clean_dirty_json_simd" \in called
Skipped       == "skip_whitespace_and_comments" \in called
Returned      == cleaning.phase = "done"
Matched       == "find_closing_quote" \in called

---------------------------------------------------------------------------
(* The scanner and the structural index on buffers of every length up to   *)
(* MaxScanLen: each buffer repeats a pattern of one or two bytes.          *)

MaxScanLen == 33

ScanBytes == {"{", "}", "[", "]", ":", ",", "\"", "'", "a", HighByte}

ScanPatterns ==
    {<<a>> : a \in ScanBytes} \cup {<<a, b>> : a, b \in ScanBytes}

Repeat(pattern, n) == [k \in 1 .. n |-> pattern[((k - 1) % Len(pattern)) + 1]]

ScanInputs == {Repeat(p, n) : p \in ScanPatterns, n \in 0 .. MaxScanLen}

InitScan == InitWith(Targets, ScanInputs)

NextScan ==
    \/ FindStructuralPositionsSimd
    \/ FindStructuralPositionsScalar
    \/ BuildIndex

SpecScan == InitScan /\ [][NextScan]_vars

\* The eight structural characters of the specification.
StructuralCharacters == {"{", "}", "[", "]", ":", ",", "\"", "'"}

\* The structural tag of each structural character.
StructuralTags ==
    {<<"{", "BraceOpen">>, <<"}", "BraceClose">>, <<"[", "BracketOpen">>,
     <<"]", "BracketClose">>, <<":", "Colon">>, <<",", "Comma">>,
     <<"\"", "Quote">>, <<"'", "SingleQuote">>}

StrictlyAscending(seq) ==
    \A k \in 1 .. (Len(seq) - 1) : seq[k] < seq[k + 1]

\* positions holds offset k exactly when byte k of bytes is structural.
ExactlyStructural(bytes, positions) ==
    /\ \A k \in 1 .. Len(positions) : positions[k] \in 0 .. (Len(bytes) - 1)
    /\ \A p \in 0 .. (Len(bytes) - 1) :
           (\E k \in 1 .. Len(positions) : positions[k] = p)
               <=> At(bytes, p) \in StructuralCharacters

\* C3: on every buffer the lane-parallel scanner returns the same offsets,
\* in the same order, as the scalar scanner.
C3_ScannerEquivalence ==
    (ScannedSimd /\ ScannedScalar)
        => positions_simd = positions_scalar

\* A buffer of more than one chunk with a remainder, with structural bytes
\* in the first chunk and in the remainder, scanned by both scanners.
C3_Witness ==
    /\ target_arch = "wasm32"
    /\ ScannedSimd /\ ScannedScalar
    /\ Len(input) > 2 * Lanes
    /\ Len(input) % Lanes # 0
    /\ \E k \in 1 .. Len(positions_simd) : positions_simd[k] < Lanes
    /\ \E k \in 1 .. Len(positions_simd) : positions_simd[k] >= 2 * Lanes
    /\ \E p \in 0 .. (Len(input) - 1) : At(input, p) \notin StructuralCharacters

---------------------------------------------------------------------------
(* The two cleaners on dirty-JSON inputs.                                  *)

\* The (kind, text) sequence of a token stream.
KindText(toks) ==
    [k \in 1 .. Len(toks) |-> <<toks[k].token_type, toks[k].value>>]

Kinds(toks) == [k \in 1 .. Len(toks) |-> toks[k].token_type]

\* Valid dirty JSON: strictly valid JSON, optionally with unquoted keys,
\* single-quoted strings, comments, trailing commas and hex literals.
MaxElems == 2

DirtyScalars ==
    {<<"1">>, <<"\"", "a", "\"">>, <<"'", "a", "'">>, <<"\"", "\"">>,
     <<"t", "r", "u", "e">>, <<"0", "x", "1", "F">>}

DirtyKeys == {<<"\"", "k", "\"">>, <<"k">>, <<"'", "k", "'">>}

DirtyGaps ==
    {<<>>, <<" ">>, <<"/", "*", "c", "*", "/">>, <<"/", "/", "c", "\n">>}

TrailingCommas == {<<>>, <<",">>}

DirtyElems == SeqsUpTo(DirtyScalars, MaxElems) \ {<<>>}

DirtyArrays ==
    {<<"[">> \o g \o Join(e, <<",">> \o g) \o t \o <<"]">> :
        g \in DirtyGaps, e \in DirtyElems, t \in TrailingCommas}

DirtyObjects ==
    {<<"{">> \o g \o k \o <<":">> \o g \o v \o t \o <<"}">> :
        g \in DirtyGaps, k \in DirtyKeys, v \in DirtyScalars, t \in TrailingCommas}

DirtyNested ==
    {<<"{">> \o k \o <<":", "[">> \o v \o <<"]", "}">> :
        k \in DirtyKeys, v \in DirtyScalars}

DirtyInputs == DirtyScalars \cup DirtyArrays \cup DirtyObjects \cup DirtyNested

\* Inputs whose last string has no closing quote: a prefix without quotes,
\* an opening quote, and a body in which every quote of the opening kind is
\* escaped (preceded by an odd run of backslashes).
MaxBodyLen == 3

BackslashRun(body, k) ==
    LET starts == {j \in 1 .. k : \A i \in j .. (k - 1) : body[i] = "\\"} IN
    k - (CHOOSE j \in starts : \A i \in starts : j <= i)

HasUnescapedQuote(body, q) ==
    \E k \in 1 .. Len(body) : body[k] = q /\ BackslashRun(body, k) % 2 = 0

UnterminatedPrefixes ==
    {<<>>, <<"[">>, <<"[", "1", ",">>, <<"{", "k", ":">>, <<"{", "k", ":", " ">>}

UnterminatedInputs ==
    {p \o <<q>> \o b :
        p \in UnterminatedPrefixes,
        q \in {"\"", "'"},
        b \in {x \in SeqsUpTo({"a", "\\", "\"", "'"}, MaxBodyLen) :
                   ~HasUnescapedQuote(x, "\"") /\ ~HasUnescapedQuote(x, "'")}}

\* Inputs of brackets, commas and numbers only: every comma of the output
\* is rendered from a Comma token.
MaxCommaLen == 4

CommaInputs == SeqsUpTo({"[", "]", "{", "}", ",", "1"}, MaxCommaLen)

\* [0x<digits>] with 1 .. MaxHexDigits hexadecimal digits.
MaxHexDigits == 17

HexDigitRuns ==
    (SeqsUpTo({"1", "f", "F", "a", "0"}, 2) \ {<<>>})
        \cup {[k \in 1 .. n |-> d] : d \in {"1", "F", "0"}, n \in 1 .. MaxHexDigits}

HexInputs == {<<"[", "0", "x">> \o d \o <<"]">> : d \in HexDigitRuns}

Inputs == DirtyInputs \cup UnterminatedInputs \cup CommaInputs \cup HexInputs

Init == InitWith({"wasm32"}, Inputs)

Next ==
    \/ CleanDirtyJson
    \/ CleanDirtyJsonSimd

Spec == Init /\ [][Next]_vars

\* C1: on valid dirty JSON the two tokenizers return token streams of the
\* same length with the same kind and text at every position, and the two
\* cleaners return the same text.
C1_TokenizerEquivalence ==
    (input \in DirtyInputs /\ Cleaned /\ CleanedSimd) =>
        /\ tokens.ok /\ tokens_simd.ok
        /\ KindText(tokens.value) = KindText(tokens_simd.value)
        /\ map_err_message(output) = output_simd

\* The offset of the first quote of the input.
FirstQuote(bytes) ==
    CHOOSE p \in 0 .. (Len(bytes) - 1) :
        /\ At(bytes, p) \in {"\"", "'"}
        /\ \A r \in 0 .. (p - 1) : At(bytes, r) \notin {"\"", "'"}

\* C2: an input with an opening quote that is never closed fails, in both
\* call forms, with an unterminated-string error positioned at that quote.
C2_UnterminatedString ==
    input \in UnterminatedInputs =>
        /\ Cleaned =>
               /\ ~output.ok
               /\ output.message = "Unterminated string"
               /\ output.position = FirstQuote(input)
        /\ CleanedSimd =>
               /\ ~tokens_simd.ok
               /\ tokens_simd.message = "Unterminated string"
               /\ tokens_simd.position = FirstQuote(input)
               /\ ~output_simd.ok

\* C6: the text built from a token stream of tokenize never has a comma
\* immediately before a closing brace or bracket.
C6_TrailingCommaElision ==
    (input \in CommaInputs /\ Cleaned /\ output.ok) =>
        \A k \in 1 .. (Len(output.value) - 1) :
            ~(output.value[k] = "," /\ output.value[k + 1] \in {"}", "]"})

\* The decimal text of the value of a run of hexadecimal digits.
RECURSIVE HexValueDigits(_)
HexValueDigits(run) ==
    IF run = <<>> THEN <<>>
    ELSE mul_add(HexValueDigits(SubSeq(run, 1, Len(run) - 1)), 16,
                 to_digit(run[Len(run)]))

HexRun(bytes) == SubSeq(bytes, 4, Len(bytes) - 1)

HexNormalized(res, bytes) ==
    /\ res.ok
    /\ Kinds(res.value) = <<"LeftBracket", "Number", "RightBracket", "EOF">>
    /\ res.value[2].value = to_string(HexValueDigits(HexRun(bytes)))
    /\ ~contains(res.value[2].value, "x")

\* C7: in both tokenizers 0x followed by n >= 1 hexadecimal digits yields
\* one Number token whose text is the decimal form of the value, so that
\* 0x never reaches the output.
C7_HexNormalization ==
    input \in HexInputs =>
        /\ Cleaned => HexNormalized(tokens, input) /\ ~contains(output.value, "x")
        /\ CleanedSimd =>
               HexNormalized(tokens_simd, input) /\ ~contains(output_simd.value, "x")

\* C17: in the two-stage token stream no other token starts inside the
\* quoted span of a String token: the bytes between a string's quotes are
\* not tokenized again.
C17_StringSpanOneToken ==
    (CleanedSimd /\ tokens_simd.ok) =>
        \A k, j \in 1 .. Len(tokens_simd.value) :
            (k # j /\ tokens_simd.value[k].token_type = "String") =>
                ~( /\ tokens_simd.value[k].start <= tokens_simd.value[j].start
                   /\ tokens_simd.value[j].start < tokens_simd.value[k].end )

---------------------------------------------------------------------------
(* Re-quoting: the single-pass cleaner on quoted strings and bare words.   *)

MaxQuotedLen == 3

QuotedBodies == SeqsUpTo({"a", "\"", "'", "\\"}, MaxQuotedLen)

QuoteInputs ==
    {<<q>> \o b \o <<q>> : q \in {"\"", "'"}, b \in QuotedBodies}
        \cup {<<"{", "k", "_", ":", "'">> \o b \o <<"'">> : b \in QuotedBodies}
        \cup {<<"$", "k", "1">>, <<"k">>, <<"_">>}

InitQuote == InitWith({"wasm32"}, QuoteInputs)

NextQuote == CleanDirtyJson

SpecQuote == InitQuote /\ [][NextQuote]_vars

\* text with a backslash before exactly the double quotes that no backslash
\* immediately precedes.
EscapedBody(text) ==
    Join([k \in 1 .. Len(text) |->
              IF text[k] = "\"" /\ (k = 1 \/ text[k - 1] # "\\")
              THEN <<"\\", "\"">>
              ELSE <<text[k]>>],
         <<>>)

Rendered(token) ==
    CASE token.token_type = "String" ->
             <<"\"">> \o EscapedBody(token.value) \o <<"\"">>
      [] token.token_type = "Identifier" ->
             <<"\"">> \o token.value \o <<"\"">>
      [] token.token_type = "LeftBrace" -> <<"{">>
      [] token.token_type = "Colon" -> <<":">>
      [] token.token_type = "EOF" -> <<>>

RequotedKinds == {"String", "Identifier", "LeftBrace", "Colon", "EOF"}

\* C8: every Identifier token is rendered as its text in double quotes and
\* every String token as its escaped body in double quotes, and every
\* double quote inside a rendered body follows a backslash.
C8_Requoting ==
    (Cleaned /\ tokens.ok
        /\ \A k \in 1 .. Len(tokens.value) :
               tokens.value[k].token_type \in RequotedKinds) =>
        /\ output.ok
        /\ output.value =
               Join([k \in 1 .. Len(tokens.value) |-> Rendered(tokens.value[k])],
                    <<>>)
        /\ \A k \in 1 .. Len(tokens.value) :
               tokens.value[k].token_type = "String" =>
                   LET body == EscapedBody(tokens.value[k].value) IN
                   \A j \in 1 .. Len(body) :
                       body[j] = "\"" => (j > 1 /\ body[j - 1] = "\\")

\* A single-quoted string holding a bare and an escaped double quote,
\* after an unquoted key, has been rendered.
C8_Witness ==
    /\ Cleaned /\ tokens.ok /\ output.ok
    /\ \E k \in 1 .. Len(tokens.value) :
           /\ tokens.value[k].token_type = "String"
           /\ tokens.value[k].value = <<"\"", "\\", "\"">>
           /\ At(input, tokens.value[k].start) = "'"
    /\ \E k \in 1 .. Len(tokens.value) :
           tokens.value[k].token_type = "Identifier"

---------------------------------------------------------------------------
(* Idempotence: the single-pass cleaner on strictly valid JSON.            *)

StrictScalars ==
    {<<"1">>, <<"-", "2", ".", "5", "e", "+", "3">>,
     <<"\"", "a", "\"">>, <<"\"", "\"">>,
     <<"\"", "a", "\\", "\"", "b", "\"">>, <<"\"", "\\", "\\", "\"">>,
     <<"\"", ",", " ", "]", "\"">>,
     <<"t", "r", "u", "e">>, <<"f", "a", "l", "s", "e">>, <<"n", "u", "l", "l">>}

StrictGaps == {<<>>, <<" ">>, <<"\r", "\n", "\t">>}

StrictElems == SeqsUpTo(StrictScalars, MaxElems)

StrictArray(g, elems) ==
    <<"[">> \o g \o Join(elems, g \o <<",">> \o g) \o g \o <<"]">>

StrictObject(g, values) ==
    <<"{">> \o g
        \o Join([k \in 1 .. Len(values) |->
                     <<"\"", "k", "\"">> \o g \o <<":">> \o g \o values[k]],
                g \o <<",">> \o g)
        \o g \o <<"}">>

StrictContainers ==
    {StrictArray(g, e) : g \in StrictGaps, e \in StrictElems}
        \cup {StrictObject(g, e) : g \in StrictGaps, e \in StrictElems}

StrictInner ==
    {StrictArray(<<>>, e) : e \in StrictElems}
        \cup {StrictObject(<<" ">>, e) : e \in StrictElems}

StrictNested ==
    {StrictArray(<<" ">>, <<c, <<"1">>, c>>) : c \in StrictInner}
        \cup {StrictObject(<<"\n">>, <<c, c>>) : c \in StrictInner}

StrictInputs ==
    StrictScalars
        \cup {<<" ">> \o v \o <<"\n">> : v \in StrictScalars}
        \cup StrictContainers
        \cup StrictNested

InitStrict == InitWith({"wasm32"}, StrictInputs)

NextStrict == CleanDirtyJson

SpecStrict == InitStrict /\ [][NextStrict]_vars

\* bytes without the JSON whitespace that lies outside its string literals.
RECURSIVE StripWhitespace(_, _, _, _)
StripWhitespace(bytes, k, inString, escaped) ==
    IF k > Len(bytes) THEN <<>>
    ELSE LET c == bytes[k] IN
         IF inString
         THEN <<c>> \o StripWhitespace(bytes, k + 1,
                           escaped \/ c # "\"", ~escaped /\ c = "\\")
         ELSE IF c \in {" ", "\t", "\n", "\r"}
         THEN StripWhitespace(bytes, k + 1, FALSE, FALSE)
         ELSE <<c>> \o StripWhitespace(bytes, k + 1, c = "\"", FALSE)

\* C10: cleaning strictly valid JSON succeeds and returns the input without
\* the whitespace outside its string literals, every token unchanged and in
\* the same order.
C10_Idempotence ==
    Cleaned => output = Ok(StripWhitespace(input, 1, FALSE, FALSE))

\* A nested document with whitespace, a backslash escape inside a string
\* and a second member has been cleaned.
C10_Witness ==
    /\ Cleaned /\ output.ok
    /\ Len(output.value) < Len(input)
    /\ input[1] = "{"
    /\ contains(input, "[")
    /\ contains(input, "\\")
    /\ contains(input, ",")

---------------------------------------------------------------------------
(* Comment stripping: the single-pass cleaner on every input over a small  *)
(* alphabet, up to MaxCommentLen bytes.                                    *)

MaxCommentLen == 5

CommentInputs == SeqsUpTo({"/", "*", "\n", "\"", "\\", "1"}, MaxCommentLen)

InitComment == InitWith({"wasm32"}, CommentInputs)

NextComment == CleanDirtyJson

SpecComment == InitComment /\ [][NextComment]_vars

\* The least member of a non-empty set of offsets.
Least(S) == CHOOSE p \in S : \A r \in S : p <= r

\* The offsets after opening offset open at which an unescaped quote of the
\* opening kind stands: the run of backslashes before it, counted back to
\* the opening quote, is even.
ClosingQuotes(bytes, open) ==
    {p \in (open + 1) .. (Len(bytes) - 1) :
        /\ At(bytes, p) = At(bytes, open)
        /\ LET run == {j \in (open + 1) .. p :
                          \A i \in j .. (p - 1) : At(bytes, i) = "\\"}
           IN  (p - Least(run)) % 2 = 0}

BlockEnds(bytes, open) ==
    {p \in (open + 2) .. (Len(bytes) - 2) :
        At(bytes, p) = "*" /\ At(bytes, p + 1) = "/"}

LineEnd(bytes, open) ==
    Least({p \in (open + 2) .. Len(bytes) :
              p = Len(bytes) \/ At(bytes, p) = "\n"})

\* The comments of bytes that lie outside every string literal, from offset
\* pos on: each a pair <<first offset, offset after the last byte>>.  A line
\* comment ends before the next newline; only a terminated block comment
\* counts.
RECURSIVE CommentsFrom(_, _)
CommentsFrom(bytes, pos) ==
    IF pos >= Len(bytes) THEN {}
    ELSE LET c == At(bytes, pos)
             next == IF pos + 1 < Len(bytes) THEN At(bytes, pos + 1) ELSE ""
         IN  IF c \in {"\"", "'"}
             THEN IF ClosingQuotes(bytes, pos) = {} THEN {}
                  ELSE CommentsFrom(bytes, Least(ClosingQuotes(bytes, pos)) + 1)
             ELSE IF c = "/" /\ next = "/"
             THEN {<<pos, LineEnd(bytes, pos)>>}
                      \cup CommentsFrom(bytes, LineEnd(bytes, pos))
             ELSE IF c = "/" /\ next = "*"
             THEN IF BlockEnds(bytes, pos) = {} THEN {}
                  ELSE {<<pos, Least(BlockEnds(bytes, pos)) + 2>>}
                           \cup CommentsFrom(bytes, Least(BlockEnds(bytes, pos)) + 2)
             ELSE CommentsFrom(bytes, pos + 1)

Comments(bytes) == CommentsFrom(bytes, 0)

\* bytes with the comment replaced by one space.
WithoutComment(bytes, comment) ==
    Slice(bytes, 0, comment[1]) \o <<" ">> \o Slice(bytes, comment[2], Len(bytes))

\* C9: cleaning an input gives the same result as cleaning the input with
\* any one comment outside every string replaced by one space: the same
\* text, or the same error message.
C9_CommentStripping ==
    Cleaned =>
        \A comment \in Comments(input) :
            map_err_message(output)
                = clean_dirty_json(WithoutComment(input, comment))

\* An input with a comment between two tokens has been cleaned to a text
\* without the comment.
C9_Witness ==
    /\ Cleaned /\ output.ok
    /\ \E comment \in Comments(input) :
           /\ comment[1] > 0
           /\ comment[2] < Len(input)
    /\ ~contains(output.value, "/")
    /\ contains(output.value, "1")

---------------------------------------------------------------------------
(* Validity of the output: the single-pass cleaner on every input over a   *)
(* small alphabet of punctuation, a digit, a sign and a letter.            *)

MaxJsonLen == 4

JsonInputs ==
    SeqsUpTo({"[", "]", "{", "}", ",", ":", "1", "-", "a"}, MaxJsonLen)

InitValid == InitWith({"wasm32"}, JsonInputs)

NextValid == CleanDirtyJson

SpecValid == InitValid /\ [][NextValid]_vars

\* Whether the braces and brackets of text, read from offset k (1-based)
\* with the open ones on stack, match.
RECURSIVE BalancedFrom(_, _, _)
BalancedFrom(text, k, stack) ==
    IF k > Len(text) THEN stack = <<>>
    ELSE LET c == text[k] IN
         IF c \in {"{", "["} THEN BalancedFrom(text, k + 1, <<c>> \o stack)
         ELSE IF c \in {"}", "]"}
         THEN /\ stack # <<>>
              /\ stack[1] = (IF c = "}" THEN "{" ELSE "[")
              /\ BalancedFrom(text, k + 1, Tail(stack))
         ELSE BalancedFrom(text, k + 1, stack)

Balanced(text) == BalancedFrom(text, 1, <<>>)

\* The grammar of RFC 8259 without whitespace.  Each recognizer takes a
\* 1-based index and gives the index after what it recognized, or 0.
JsonDigits == {"0", "1", "2", "3", "4", "5", "6", "7", "8", "9"}

RECURSIVE JsonDigitsEnd(_, _)
JsonDigitsEnd(text, k) ==
    IF k <= Len(text) /\ text[k] \in JsonDigits
    THEN JsonDigitsEnd(text, k + 1) ELSE k

JsonNumberEnd(text, k) ==
    LET a == IF k <= Len(text) /\ text[k] = "-" THEN k + 1 ELSE k
        b == IF a <= Len(text) /\ text[a] = "0" THEN a + 1
             ELSE IF a <= Len(text) /\ text[a] \in JsonDigits
             THEN JsonDigitsEnd(text, a) ELSE 0
        c == IF b # 0 /\ b <= Len(text) /\ text[b] = "."
             THEN (IF JsonDigitsEnd(text, b + 1) > b + 1
                   THEN JsonDigitsEnd(text, b + 1) ELSE 0)
             ELSE b
        d == IF c # 0 /\ c <= Len(text) /\ text[c] \in {"e", "E"}
             THEN LET e == IF c + 1 <= Len(text) /\ text[c + 1] \in {"+", "-"}
                           THEN c + 2 ELSE c + 1
                  IN  IF JsonDigitsEnd(text, e) > e
                      THEN JsonDigitsEnd(text, e) ELSE 0
             ELSE c
    IN  d

RECURSIVE JsonStringBodyEnd(_, _)
JsonStringBodyEnd(text, k) ==
    IF k > Len(text) THEN 0
    ELSE IF text[k] = "\"" THEN k + 1
    ELSE IF text[k] \in {"\n", "\t", "\r", "\f"} THEN 0
    ELSE IF text[k] = "\\"
    THEN IF k + 1 <= Len(text)
            /\ text[k + 1] \in {"\"", "\\", "/", "b", "f", "n", "r", "t"}
         THEN JsonStringBodyEnd(text, k + 2)
         ELSE IF k + 5 <= Len(text) /\ text[k + 1] = "u"
                 /\ \A h \in 2 .. 5 : is_ascii_hexdigit(text[k + h])
         THEN JsonStringBodyEnd(text, k + 6)
         ELSE 0
    ELSE JsonStringBodyEnd(text, k + 1)

JsonStringEnd(text, k) ==
    IF k <= Len(text) /\ text[k] = "\"" THEN JsonStringBodyEnd(text, k + 1)
    ELSE 0

JsonLiteralEnd(text, k, word) ==
    IF SubSeq(text, k, k + Len(word) - 1) = word THEN k + Len(word) ELSE 0

RECURSIVE JsonValueEnd(_, _)
RECURSIVE JsonElementsEnd(_, _)
RECURSIVE JsonMembersEnd(_, _)

\* value (, value)* ]
JsonElementsEnd(text, k) ==
    LET v == JsonValueEnd(text, k) IN
    IF v = 0 \/ v > Len(text) THEN 0
    ELSE IF text[v] = "]" THEN v + 1
    ELSE IF text[v] = "," THEN JsonElementsEnd(text, v + 1)
    ELSE 0

\* string : value (, string : value)* }
JsonMembersEnd(text, k) ==
    LET key == JsonStringEnd(text, k) IN
    IF key = 0 \/ key > Len(text) \/ text[key] # ":" THEN 0
    ELSE LET v == JsonValueEnd(text, key + 1) IN
         IF v = 0 \/ v > Len(text) THEN 0
         ELSE IF text[v] = "}" THEN v + 1
         ELSE IF text[v] = "," THEN JsonMembersEnd(text, v + 1)
         ELSE 0

JsonValueEnd(text, k) ==
    IF k > Len(text) THEN 0
    ELSE LET c == text[k] IN
         IF c = "[" THEN (IF k + 1 <= Len(text) /\ text[k + 1] = "]" THEN k + 2
                          ELSE JsonElementsEnd(text, k + 1))
         ELSE IF c = "{" THEN (IF k + 1 <= Len(text) /\ text[k + 1] = "}" THEN k + 2
                               ELSE JsonMembersEnd(text, k + 1))
         ELSE IF c = "\"" THEN JsonStringEnd(text, k)
         ELSE IF c = "t" THEN JsonLiteralEnd(text, k, <<"t", "r", "u", "e">>)
         ELSE IF c = "f" THEN JsonLiteralEnd(text, k, <<"f", "a", "l", "s", "e">>)
         ELSE IF c = "n" THEN JsonLiteralEnd(text, k, <<"n", "u", "l", "l">>)
         ELSE JsonNumberEnd(text, k)

ValidJson(text) == JsonValueEnd(text, 1) = Len(text) + 1

\* C11: when clean_dirty_json returns Ok for a non-empty input whose braces
\* and brackets are balanced, the returned text is syntactically valid JSON.
C11_OutputIsValidJson ==
    (Cleaned /\ output.ok /\ Balanced(input) /\ input # <<>>) =>
        ValidJson(output.value)

---------------------------------------------------------------------------
(* The cleaners one loop pass at a time, on every input over a small       *)
(* alphabet up to MaxStepLen bytes and on a few longer documents.          *)

MaxStepLen == 4

StepSamples ==
    { <<"{", "a", ":", "'", "b", "'", ",", "c", ":", "[", "1", ",", "2", "]", "}">>,
      <<"[", "t", "r", "u", "e", ",", " ", "f", "a", "l", "s", "e", ",", "]">>,
      <<"{", "\"", "k", "\"", ":", "\"", "v", "\\", "\"", "w", "\"", "}", " ",
        "/", "/", "c">>,
      <<"/", "*", "x", "*", "/", "[", "0", "x", "F", ",", "-", "1", ".", "5", "]">>,
      <<"[", "'", "a", "\\", "\\", "'", ",", "n", "u", "l", "l", "]">>,
      <<"{", "a", ":", "+", "}">>,
      <<"[", "#", "]">> }

StepInputs ==
    SeqsUpTo({"/", "*", "\n", "\"", "\\", "1", ","}, MaxStepLen)
        \cup StepSamples

InitSteps == InitWith({"wasm32"}, StepInputs)

NextSteps ==
    \/ TokenizeStart
    \/ TokenizeStep
    \/ ExtractStart
    \/ ExtractStep
    \/ ReconstructStep

\* A call that has been entered runs on: a loop that can make a pass makes it.
SpecSteps == InitSteps /\ [][NextSteps]_vars /\ WF_vars(NextSteps)

\* The bytes at which a token of the single-pass grammar can start.
TokenStartBytes ==
    {"\"", "'", "-", "+", ".", "_", "$", "{", "}", "[", "]", ":", ","}
        \cup AsciiDigit \cup AsciiLower \cup AsciiUpper

\* C12: when the offset tokenize reaches after skipping whitespace and
\* comments holds a byte at which no token can start, the call returns, in
\* that loop pass, an unexpected-character error positioned at that offset,
\* and no text.
C12_UnexpectedCharacter ==
    [][\A p \in 0 .. (Len(input) - 1) :
          ( /\ cleaning.phase = "tokenize"
            /\ cleaning.pos < Len(input)
            /\ skip_whitespace_and_comments(input, cleaning.pos) = p
            /\ At(input, p) \notin TokenStartBytes )
          => /\ cleaning'.phase = "done"
             /\ cleaning'.result =
                    ParseError("Unexpected character: " \o At(input, p), p)
             /\ cleaning'.text = <<>>]_vars

\* tokenize has pushed a token, skipped whitespace, and failed on a later
\* byte with an unexpected-character error.
C12_Witness ==
    /\ Returned
    /\ cleaning.path = "tokenize"
    /\ cleaning.toks # <<>>
    /\ ~cleaning.result.ok
    /\ cleaning.result.message = "Unexpected character: *"
    /\ cleaning.result.position >= 2
    /\ At(input, cleaning.result.position - 1) = "\n"

\* A loop pass that stays in its loop moves the loop variable forward.
LoopAdvances ==
    (cleaning'.phase = cleaning.phase
        /\ cleaning.phase \in {"tokenize", "extract", "reconstruct"})
    => cleaning'.pos > cleaning.pos

\* A tokenizer that returned a stream returned one whose last token is the
\* only EOF token, at offset len(input).
EndsWithEOF(toks) ==
    /\ toks # <<>>
    /\ toks[Len(toks)].token_type = "EOF"
    /\ toks[Len(toks)].start = Len(input)
    /\ toks[Len(toks)].end = Len(input)
    /\ \A k \in 1 .. (Len(toks) - 1) : toks[k].token_type # "EOF"

\* C15: tokenize, parse_two_stage and reconstruct_json terminate: every
\* call returns, every loop pass moves its offset or index forward, and a
\* call returns either an error or, from a token stream that ends with the
\* single EOF token at len(input), a text.
C15_Termination ==
    /\ <>Returned
    /\ [][LoopAdvances]_vars
    /\ [](cleaning.phase \in {"reconstruct", "done"} =>
             (~cleaning.result.ok \/ EndsWithEOF(cleaning.toks)))

\* The two-stage call has returned a text for an input with a string that
\* holds a backslash, after at least three tokens.
C15_Witness ==
    /\ Returned
    /\ cleaning.path = "parse_two_stage"
    /\ cleaning.result.ok
    /\ Len(cleaning.toks) >= 3
    /\ \E k \in 1 .. Len(cleaning.toks) :
           /\ cleaning.toks[k].token_type = "String"
           /\ contains(cleaning.toks[k].value, "\\")

---------------------------------------------------------------------------
(* Number errors: both cleaners on a lone + and on 0x without digits, at   *)
(* the start of the input, inside containers, and after the last           *)
(* structural character.                                                   *)

ErrorPrefixes ==
    { <<>>, <<" ">>, <<"[">>, <<"[", "1", ",">>, <<"{", "a", ":">>,
      <<"[", "]", " ">> }

ErrorSuffixes == { <<>>, <<"]">>, <<",", "1", "]">>, <<"}">> }

LonePlusInputs ==
    { pre \o <<"+">> \o suf : pre \in ErrorPrefixes, suf \in ErrorSuffixes }

EmptyHexInputs ==
    { pre \o <<"0", "x">> \o suf : pre \in ErrorPrefixes, suf \in ErrorSuffixes }

ErrorInputs == LonePlusInputs \cup EmptyHexInputs

InitErrors == InitWith({"wasm32"}, ErrorInputs)

NextErrors == CleanDirtyJson \/ CleanDirtyJsonSimd

SpecErrors == InitErrors /\ [][NextErrors]_vars

\* C13: an input with a lone + (a + at a token start that is the last byte
\* of the input or of its non-structural span) fails in both call forms
\* with an unexpected-end error.
C13_LonePlus ==
    input \in LonePlusInputs =>
        /\ Cleaned =>
               /\ ~output.ok
               /\ output.message = "Unexpected end after +"
        /\ CleanedSimd =>
               /\ ~output_simd.ok
               /\ output_simd.message = "Unexpected end after +"

\* C14: an input with 0x followed by no hexadecimal digit fails in both
\* call forms with an invalid-hex-number error.
C14_EmptyHex ==
    input \in EmptyHexInputs =>
        /\ Cleaned =>
               /\ ~output.ok
               /\ output.message = "Invalid hex number"
        /\ CleanedSimd =>
               /\ ~output_simd.ok
               /\ output_simd.message = "Invalid hex number"

---------------------------------------------------------------------------
(* The skipper: skip_whitespace_and_comments from every start offset of    *)
(* every input over a small alphabet, up to MaxSkipLen bytes.              *)

MaxSkipLen == 5

SkipInputs == SeqsUpTo({"/", "*", "\n", " ", "a"}, MaxSkipLen)

InitSkip == InitWith({"wasm32"}, SkipInputs)

NextSkip == SkipWhitespaceAndComments

SpecSkip == InitSkip /\ [][NextSkip]_vars

\* The offset of the first byte, from pos on, that is neither whitespace nor
\* the start of a comment, or len: a line comment runs up to the next
\* newline, a block comment through its first closing */ and, when it has
\* none, to the end of the input.
RECURSIVE SkippedTo(_, _)
SkippedTo(bytes, pos) ==
    IF pos >= Len(bytes) THEN Len(bytes)
    ELSE LET c == At(bytes, pos)
             next == IF pos + 1 < Len(bytes) THEN At(bytes, pos + 1) ELSE ""
         IN  IF c \in {" ", "\t", "\n", "\r"} THEN SkippedTo(bytes, pos + 1)
             ELSE IF c = "/" /\ next = "/"
             THEN SkippedTo(bytes, LineEnd(bytes, pos))
             ELSE IF c = "/" /\ next = "*"
             THEN IF BlockEnds(bytes, pos) = {} THEN Len(bytes)
                  ELSE SkippedTo(bytes, Least(BlockEnds(bytes, pos)) + 2)
             ELSE pos

\* C16: skip_whitespace_and_comments(input, pos) returns an offset p with
\* pos <= p <= len that is len or the offset of the first byte that is
\* neither whitespace nor the start of a comment, and never an offset
\* inside a block comment, terminated or not.
C16_SkipExact ==
    Skipped =>
        /\ skipped.pos <= skipped.result
        /\ skipped.result <= Len(input)
        /\ skipped.result = SkippedTo(input, skipped.pos)

---------------------------------------------------------------------------
(* Quote matching: both paths on every input over quotes, backslashes and  *)
(* a letter, up to MaxStringLen bytes, from every quote of the input.      *)

MaxStringLen == 5

StringInputs == SeqsUpTo({"\"", "'", "\\", "a"}, MaxStringLen)

InitMatch == InitWith(Targets, StringInputs)

NextMatch == FindClosingQuote

SpecMatch == InitMatch /\ [][NextMatch]_vars

\* C18: for an opening quote at offset s, extract_string and the string end
\* scan of tokenize select the same closing quote, or both find none.
C18_EscapeAgreement ==
    Matched =>
        IF closers.two_stage.found
        THEN /\ closers.single_pass < Len(input)
             /\ closers.single_pass = closers.two_stage.closer
        ELSE closers.single_pass = Len(input)

\* Both paths have selected a closing quote that follows a run of two
\* backslashes.
C18_Witness ==
    /\ Matched
    /\ closers.two_stage.found
    /\ closers.two_stage.closer >= closers.open + 3
    /\ At(input, closers.two_stage.closer - 1) = "\\"
    /\ At(input, closers.two_stage.closer - 2) = "\\"

---------------------------------------------------------------------------
(* Comments in the two-stage path: the two-stage cleaner on every input    *)
(* over a small alphabet with a comma and a quote, up to MaxCommentLen     *)
(* bytes.                                                                  *)

IndexedCommentInputs ==
    SeqsUpTo({"/", "*", "\n", ",", "\"", "1"}, MaxCommentLen)

InitIndexedComment == InitWith({"wasm32"}, IndexedCommentInputs)

NextIndexedComment == CleanDirtyJsonSimd

SpecIndexedComment == InitIndexedComment /\ [][NextIndexedComment]_vars

\* Whether a structural character stands inside the comment.
HoldsStructural(bytes, comment) ==
    \E p \in comment[1] .. (comment[2] - 1) :
        At(bytes, p) \in StructuralCharacters

\* C19: the kind/text token sequence of parse_two_stage is unchanged when a
\* comment outside every string that holds structural characters is
\* replaced by one space.
C19_CommentsSkippedWhole ==
    CleanedSimd =>
        \A comment \in Comments(input) :
            HoldsStructural(input, comment) =>
                LET other == parse_two_stage(target_arch,
                                             WithoutComment(input, comment))
                IN  /\ tokens_simd.ok = other.ok
                    /\ tokens_simd.ok =>
                           KindText(tokens_simd.value) = KindText(other.value)

---------------------------------------------------------------------------
(* Value tokens: both cleaners on every input over digits, a letter, a     *)
(* space and a comma, up to MaxValueLen bytes: no string, no comment.      *)

MaxValueLen == 4

ValueInputs == SeqsUpTo({"4", "2", "a", " ", ","}, MaxValueLen)

InitValues == InitWith({"wasm32"}, ValueInputs)

NextValues == CleanDirtyJson \/ CleanDirtyJsonSimd

SpecValues == InitValues /\ [][NextValues]_vars

ValueKinds == {"Number", "True", "False", "Null", "Identifier"}

IsValueToken(token) == token.token_type \in ValueKinds

\* The kind and text of the number, keyword and identifier tokens, in order.
ValueTokens(toks) == KindText(SelectSeq(toks, IsValueToken))

\* C20: the two-stage extractor emits, in order, every number, keyword and
\* identifier that the character-by-character scan of tokenize finds.
C20_NoValueTokenLost ==
    (Cleaned /\ CleanedSimd /\ tokens.ok) =>
        /\ tokens_simd.ok
        /\ ValueTokens(tokens_simd.value) = ValueTokens(tokens.value)

---------------------------------------------------------------------------
(* Comma lookahead: reconstruct_json on every stream of TokenStreams,      *)
(* against a reconstructor whose Comma arm always emits the comma.         *)

InitTokens == InitWith({"wasm32"}, {<<>>})

NextTokens == ReconstructStart \/ ReconstructStep

SpecTokens == InitTokens /\ [][NextTokens]_vars

\* The reconstructor without the lookahead: a Comma token always emits ","
\* and every other arm is the arm of reconstruct_json.
RECURSIVE always_emit_comma_from(_, _, _)
always_emit_comma_from(toks, i, result) ==
    IF i < Len(toks) /\ At(toks, i).token_type = "Comma"
    THEN always_emit_comma_from(toks, i + 1, Append(result, ","))
    ELSE LET s == reconstruct_step(toks, i, result) IN
         IF s.done THEN s.result
         ELSE always_emit_comma_from(toks, s.i, s.result)

always_emit_comma(toks) == always_emit_comma_from(toks, 0, <<>>)

Reconstructed == cleaning.phase = "done" /\ cleaning.path = "reconstruct"

\* A Comma directly before the EndOfInput token.
CommaBeforeEnd(toks) ==
    \E k \in 1 .. (Len(toks) - 1) :
        toks[k].token_type = "Comma" /\ toks[k + 1].token_type = "EOF"

\* Two adjacent Commas directly before a closing brace or bracket.
DoubledCommaBeforeCloser(toks) ==
    \E k \in 1 .. (Len(toks) - 2) :
        /\ toks[k].token_type = "Comma"
        /\ toks[k + 1].token_type = "Comma"
        /\ toks[k + 2].token_type \in {"RightBrace", "RightBracket"}

\* A Comma directly before a closing brace or bracket: the lookahead of
\* the Comma arm suppresses it.
CommaBeforeCloser(toks) ==
    \E k \in 1 .. (Len(toks) - 1) :
        /\ toks[k].token_type = "Comma"
        /\ toks[k + 1].token_type \in {"RightBrace", "RightBracket"}

---------------------------------------------------------------------------
(* CSV round trip: stringify_csv_internal, then parse_csv_internal with    *)
(* the same delimiter, on arrays of up to MaxRows rows of up to MaxFields  *)
(* fields of up to MaxFieldLen characters over CsvChars, and on CsvSamples. *)

InitCsv == InitWith({"wasm32"}, {<<>>})

NextCsv == StringifyCsv \/ ParseCsv

SpecCsv == InitCsv /\ [][NextCsv]_vars

ParsedBack == csv.phase = "parsed"

\* Every row holds at least one field.
RowsOfFields(data) == \A r \in 1 .. Len(data.value) : Len(data.value[r].value) > 0

\* C22: for every array of rows of string fields, parsing the text of
\* stringify_csv_internal with the same delimiter, no header and no type
\* conversion returns the same rows with the same fields in the same order.
C22_CsvRoundTrip ==
    (ParsedBack /\ RowsOfFields(csv.data)) => csv.parsed = csv.data

===========================================================================
